---- MODULE Spec2Model ----
(***************************************************************************)
(* Model of automation_agent.py: the BuildAutomationGUI start/stop         *)
(* commands, the orchestrator run_claude_automation and the fix loop       *)
(* monitor_and_fix_with_claude, run by background worker threads.          *)
(*                                                                         *)
(* A worker's pc names the blocking operation (HTTP call or sleep) it is   *)
(* currently inside.  One action completes that operation with one of its  *)
(* possible outcomes and runs the code that follows up to the start of the *)
(* next blocking operation.  GUI commands interleave between these steps,  *)
(* i.e. they arrive while the operation named by pc is in flight.          *)
(***************************************************************************)
EXTENDS Integers, Sequences, FiniteSets, TLC

\* ---------------------------------------------------------------- bounds
MaxStarts == 2          \* start commands (worker threads) in a behaviour
MaxAttemptsCfg == 3     \* largest configured max_fix_attempts explored
TimeoutPolls == 1       \* github_timeout measured in 10 s poll intervals
MaxFaults == 1          \* failed responses in a behaviour with several starts
MaxLines == 2           \* lines in the files given to the fallback analysis, in total
MaxBody == 2            \* characters between the braces of a JSON payload
MaxDiagnostics == 4     \* diagnostic lines of an error log

Workers == 1..MaxStarts

\* ------------------------------------------------------- program constants
ConfidenceThreshold == 3            \* 0.3, confidence in tenths
SnippetAttempt == 3                 \* if attempt >= 3 and source_files
SnippetCap == 3                     \* error_files[:3]

\* the three build files, in the order the code handles them
BuildPaths == <<"vcpkg.json", "CMakeLists.txt", ".github/workflows/build.yml">>

\* the entries of the dict returned by generate_build_files, in publish order
PublishTargets ==
    << [field |-> "vcpkg.json",     path |-> "vcpkg.json",
        key |-> "vcpkg.json"],
       [field |-> "CMakeLists.txt", path |-> "CMakeLists.txt",
        key |-> "CMakeLists.txt"],
       [field |-> "workflow.yml",   path |-> ".github/workflows/build.yml",
        key |-> ".github/workflows/build.yml"] >>

\* a fix round that writes one of its files to a source path
FixTargetsWrongPath ==
    << [field |-> "vcpkg_changes",    path |-> "vcpkg.json",
        key |-> "vcpkg.json"],
       [field |-> "cmake_changes",    path |-> "main.cpp",
        key |-> "CMakeLists.txt"],
       [field |-> "workflow_changes", path |-> ".github/workflows/build.yml",
        key |-> "workflow.yml"] >>

\* the fields of a fix result, the repository path each is written to and
\* the key of current_files that is assigned after a successful write
FixTargets ==
    << [field |-> "vcpkg_changes",    path |-> "vcpkg.json",
        key |-> "vcpkg.json"],
       [field |-> "cmake_changes",    path |-> "CMakeLists.txt",
        key |-> "CMakeLists.txt"],
       [field |-> "workflow_changes", path |-> ".github/workflows/build.yml",
        key |-> "workflow.yml"] >>

\* source files of the repository tree, in listing order
RepoTree == <<"main.cpp">>

SeqRange(s) == {s[j] : j \in 1..Len(s)}

Paths == SeqRange(BuildPaths) \cup SeqRange(RepoTree)
Keys == SeqRange(BuildPaths) \cup {"workflow.yml"}

\* file contents: None, the generated content, the content proposed by the
\* fix of attempt a
None == <<>>
Generated == <<"generated">>
FixContent(a) == <<"fix", a>>

FixFields == {"vcpkg_changes", "cmake_changes", "workflow_changes"}
GenFields == {"vcpkg.json", "CMakeLists.txt", "workflow.yml"}
ConfidenceValues == {0, 3}

\* what a remediation round still reads of its fix result: the fields of
\* the targets after position k, and code_changes; the confidence the gate
\* has read is kept with it
Rest(fx, k) ==
    [confidence |-> fx.confidence,
     present |-> {FixTargets[j].field : j \in (k + 1)..Len(FixTargets)}
                   \cap fx.present,
     code_changes |-> fx.code_changes]
\* a fix result of which only the confidence was read
Spent(fx) == [confidence |-> fx.confidence, present |-> {},
              code_changes |-> FALSE]
NoFixes == [confidence |-> 0, present |-> {}, code_changes |-> FALSE]
\* the zero-confidence result fix_build_errors returns on any exception
FallbackFix == [confidence |-> 0, present |-> {}, code_changes |-> FALSE]
FixResults == [confidence : ConfidenceValues, present : SUBSET FixFields,
               code_changes : BOOLEAN]

\* blocking operations that are requests to the repository client / advisor
GitHubCalls == {"list_files", "get_file", "put", "get_runs", "poll_status",
                "eval_status", "get_logs", "fix_put"}
AdvisorCalls == {"analyze", "generate", "fix"}
ExternalCalls == GitHubCalls \cup AdvisorCalls
Sleeps == {"sleep15", "sleep10_noruns", "sleep10_poll", "sleep5"}
FixLoopPcs == {"sleep15", "get_runs", "sleep10_noruns", "poll_status",
               "sleep10_poll", "eval_status", "get_logs", "fix", "fix_put",
               "sleep5"}
Live == {"start"} \cup ExternalCalls \cup Sleeps

VARIABLES
    \* ---- fields of BuildAutomationGUI and its widgets
    automation_running,     \* self.automation_running
    start_button,           \* state of self.start_button
    stop_button,            \* state of self.stop_button
    status_label,           \* text of self.status_label
    log,                    \* last WARNING/ERROR/SUCCESS line of self.log_text
    messagebox,             \* last validation error shown by start_automation
    form,                   \* which of the four inputs are non-empty
    max_fix_attempts,       \* self.config['max_fix_attempts']
    starts_left,            \* start commands the user still issues
    faults_left,            \* failed responses the services still give;
                            \* negative: any number
    original_source_files,  \* self.original_source_files
    \* ---- the remote repository: last content written to each path
    repo,
    \* ---- per worker thread
    pc,                     \* blocking operation in flight
    source_files,           \* files dict of fetch_code_files (its key set)
    idx,                    \* position in the item / target list in progress
    build_files,            \* fields of generate_build_files' result
    current_files,          \* the live build-file map
    attempt,
    elapsed,                \* time.time() - start_time, in poll intervals
    fixes,                  \* result of fix_build_errors (the part not yet applied)
    files_updated,
    conclusion,             \* status.get('conclusion'), until remediation starts
    \* ---- observation of a run (not read by the program)
    outcome,                \* how the run ended
    exc,                    \* cause of the exception that ended it
    iters,                  \* entries into the body of the outer loop
    timed_out,              \* polling ended by the timeout (until remediation)
    stop_pending,           \* stop issued for this run, no start since
    calls_after_stop,       \* requests issued since that stop
    run_evaluated,          \* the run that runs[0] names ended in a failure
                            \* this worker's loop has already evaluated
    \* ---- ClaudeCoordinator's helpers, called on their own
    given_files,            \* argument files of _fallback_analysis
    analysis,               \* its result, {} before the call
    payload,                \* the JSON object the advisor answers with
    text,                   \* argument of _extract_json: the response text
    json_str                \* its result, {} before the call

gui == <<automation_running, start_button, stop_button, status_label, log,
         messagebox>>
config == <<form, max_fix_attempts, starts_left, faults_left>>
locals == <<source_files, idx, build_files, current_files, elapsed, fixes,
            files_updated, conclusion>>
flow == <<pc, attempt, outcome, exc, iters, calls_after_stop>>
helpers == <<given_files, analysis, payload, text, json_str>>
vars == <<gui, config, original_source_files, repo, locals, flow,
          timed_out, stop_pending, run_evaluated, helpers>>

NoFiles == [k \in Keys |-> None]

InitCommon ==
    /\ automation_running = FALSE
    /\ start_button = "normal"
    /\ stop_button = "disabled"
    /\ status_label = "Ready"
    /\ log = "none"
    /\ messagebox = "none"
    /\ original_source_files = {}
    /\ repo = [p \in Paths |-> None]
    /\ pc = [w \in Workers |-> "idle"]
    /\ source_files = [w \in Workers |-> {}]
    /\ idx = [w \in Workers |-> 0]
    /\ build_files = [w \in Workers |-> {}]
    /\ current_files = [w \in Workers |-> NoFiles]
    /\ attempt = [w \in Workers |-> 0]
    /\ elapsed = [w \in Workers |-> 0]
    /\ fixes = [w \in Workers |-> NoFixes]
    /\ files_updated = [w \in Workers |-> FALSE]
    /\ conclusion = [w \in Workers |-> "unset"]
    /\ timed_out = [w \in Workers |-> FALSE]
    /\ outcome = [w \in Workers |-> "none"]
    /\ exc = [w \in Workers |-> "none"]
    /\ iters = [w \in Workers |-> 0]
    /\ stop_pending = [w \in Workers |-> FALSE]
    /\ calls_after_stop = [w \in Workers |-> 0]
    /\ run_evaluated = [w \in Workers |-> FALSE]

\* ---------------------------------------------------- control-flow pieces
\* A step of a worker ends by entering the next blocking operation or by
\* leaving run_claude_automation.  These operators compute where it ends:
\* [pc, attempt, status, log, outcome, exc, entered].

Continue(p, a, st, lg) ==
    [pc |-> p, attempt |-> a, status |-> st, log |-> lg, outcome |-> "none",
     exc |-> "none", entered |-> FALSE]

Return(oc, a, st, lg) ==
    [pc |-> "done", attempt |-> a, status |-> st, log |-> lg, outcome |-> oc,
     exc |-> "none", entered |-> FALSE]

\* an except clause that leaves the status label as it is
RaiseKeepsStatus(cause, a, st, lg) ==
    [pc |-> "done", attempt |-> a, status |-> st,
     log |-> "Automation failed", outcome |-> "exception",
     exc |-> cause, entered |-> FALSE]

\* except Exception as e: log, claude_log, update_status("Failed")
Raise(cause, a, st, lg) ==
    [pc |-> "done", attempt |-> a, status |-> "Failed",
     log |-> "Automation failed", outcome |-> "exception",
     exc |-> cause, entered |-> FALSE]

\* the code after the outer loop: if attempt >= max_attempts: report
LoopExit(oc, a, st, lg) ==
    IF a >= max_fix_attempts
    THEN Return(oc, a, "Build failed - manual intervention needed",
                "Max attempts reached")
    ELSE Return(oc, a, st, lg)

LoopCondOffByOne(a, m, running) == a <= m /\ running

\* while attempt < max_attempts and self.automation_running
LoopCond(a, m, running) == a < m /\ running

\* a loop head that counts an attempt twice
LoopTopCountsTwice(a, st, lg) ==
    IF LoopCond(a, max_fix_attempts, automation_running)
    THEN [pc |-> "sleep15", attempt |-> a + 2,
          status |-> "Waiting for GitHub Actions", log |-> lg,
          outcome |-> "none", exc |-> "none", entered |-> TRUE]
    ELSE LoopExit(IF a >= max_fix_attempts THEN "exhausted" ELSE "stopped",
                  a, st, lg)

\* head of the outer loop, with the start of its body up to time.sleep(15)
LoopTop(a, st, lg) ==
    IF LoopCond(a, max_fix_attempts, automation_running)
    THEN [pc |-> "sleep15", attempt |-> a + 1,
          status |-> "Waiting for GitHub Actions", log |-> lg,
          outcome |-> "none", exc |-> "none", entered |-> TRUE]
    ELSE LoopExit(IF a >= max_fix_attempts THEN "exhausted" ELSE "stopped",
                  a, st, lg)

\* head of the polling loop, and the check that follows the loop
PollTop(el, a, st, lg) ==
    IF ~automation_running
    THEN LoopExit("stopped", a, st, lg)
    ELSE IF el > TimeoutPolls
         THEN Continue("eval_status", a, st, "Build timeout reached")
         ELSE Continue("poll_status", a, st, lg)

\* finally: of run_claude_automation
Finally ==
    /\ automation_running' = FALSE
    /\ start_button' = "normal"
    /\ stop_button' = "disabled"

Commit(w, n) ==
    /\ pc' = [pc EXCEPT ![w] = n.pc]
    /\ attempt' = [attempt EXCEPT ![w] = n.attempt]
    /\ iters' = [iters EXCEPT ![w] = IF n.entered THEN @ + 1 ELSE @]
    /\ outcome' = [outcome EXCEPT ![w] = n.outcome]
    /\ exc' = [exc EXCEPT ![w] = n.exc]
    /\ status_label' = n.status
    /\ log' = n.log
    /\ IF n.pc = "done"
       THEN Finally
       ELSE UNCHANGED <<automation_running, start_button, stop_button>>
    /\ calls_after_stop' =
         [calls_after_stop EXCEPT ![w] =
            IF n.pc \in ExternalCalls /\ stop_pending[w] /\ @ < 2
            THEN @ + 1 ELSE @]
    /\ UNCHANGED <<messagebox, form, max_fix_attempts, starts_left,
                   stop_pending, helpers>>

\* The workflow runs on every push, and runs[0] is the run of the last
\* commit: a successful write makes a run that no loop has evaluated; the
\* worker that reads the conclusion failure or cancelled (and so goes on to
\* the logs) has evaluated runs[0]; a worker that ends has no loop
LatestRun(w, wrote, n) ==
    IF wrote
    THEN [v \in Workers |-> FALSE]
    ELSE [run_evaluated EXCEPT ![w] =
            IF n.pc = "done" THEN FALSE
            ELSE IF pc[w] = "eval_status" /\ n.pc = "get_logs" THEN TRUE
            ELSE @]

\* a service answers the request in flight; a failed response (an error
\* status, an exception, an unusable advisor answer) is given while
\* faults_left allows
Respond(w, failed, n) ==
    /\ failed => faults_left # 0
    /\ faults_left' = IF failed /\ faults_left > 0 THEN faults_left - 1
                      ELSE faults_left
    /\ run_evaluated' = LatestRun(w, pc[w] \in {"put", "fix_put"} /\ ~failed,
                                  n)
    /\ Commit(w, n)

\* a sleep ends, or the thread gets to run
Proceed(w, n) ==
    /\ faults_left' = faults_left
    /\ run_evaluated' = LatestRun(w, FALSE, n)
    /\ Commit(w, n)

\* the file the request in flight reads or writes
RequestPath(w) ==
    CASE pc[w] = "get_file" -> RepoTree[idx[w]]
      [] pc[w] = "put" -> PublishTargets[idx[w]].path
      [] pc[w] = "fix_put" -> FixTargets[idx[w]].path
      [] OTHER -> "none"

\* least position after from whose field carries content, 0 if there is none
NextTarget(targets, present, from) ==
    LET later == {j \in (from + 1)..Len(targets) : targets[j].field \in present}
    IN  IF later = {} THEN 0
        ELSE CHOOSE j \in later : \A j2 \in later : j <= j2

\* -------------------------------------------------------- GUI commands
FirstIdle == CHOOSE w \in Workers : pc[w] = "idle" /\ \A v \in Workers :
                                        pc[v] = "idle" => w <= v

\* start_automation with a missing input: error box, nothing started
StartRejected ==
    /\ start_button = "normal"
    /\ ~(form.api_key /\ form.token /\ form.repo_url)
    /\ messagebox' = IF ~form.api_key THEN "ANTHROPIC_API_KEY"
                     ELSE IF ~form.token THEN "GITHUB_TOKEN"
                     ELSE "repository URL"
    /\ messagebox' # messagebox
    /\ UNCHANGED <<automation_running, start_button, stop_button,
                   status_label, log, config, original_source_files, repo,
                   locals, flow, timed_out,
                   stop_pending, run_evaluated, helpers>>

\* start_automation with valid inputs: a new worker thread
Start ==
    /\ start_button = "normal"
    /\ form.api_key /\ form.token /\ form.repo_url
    /\ starts_left > 0
    /\ \E w \in Workers : pc[w] = "idle"
    /\ starts_left' = starts_left - 1
    /\ automation_running' = TRUE
    /\ start_button' = "disabled"
    /\ stop_button' = "normal"
    /\ pc' = [pc EXCEPT ![FirstIdle] = "start"]
    /\ stop_pending' = [w \in Workers |-> FALSE]
    /\ UNCHANGED <<status_label, log, messagebox, form, max_fix_attempts,
                   faults_left, original_source_files, repo, locals, attempt, outcome,
                   exc, iters, calls_after_stop, timed_out, run_evaluated,
                   helpers>>

\* stop_automation
Stop ==
    /\ stop_button = "normal"
    /\ automation_running' = FALSE
    /\ start_button' = "normal"
    /\ stop_button' = "disabled"
    /\ status_label' = "Stopped"
    /\ log' = "Automation stopped by user"
    /\ stop_pending' = [w \in Workers |-> pc[w] \in Live]
    /\ calls_after_stop' = [w \in Workers |-> 0]
    /\ UNCHANGED <<messagebox, config, original_source_files, repo, locals,
                   pc, attempt, outcome, exc, iters, timed_out, run_evaluated,
                   helpers>>

\* ------------------------------------------- run_claude_automation, setup
\* the thread starts: update_status, then fetch_code_files calls list_files
Begin(w) ==
    /\ pc[w] = "start"
    /\ Proceed(w, Continue("list_files", 0,
                          "Claude is analyzing your project...", log))
    /\ UNCHANGED <<original_source_files, repo, locals, timed_out>>

\* a run that goes on to the analysis with no file fetched
AfterFetchNoCheck(files, lg) ==
    Continue("analyze", 0, status_label, lg)

\* end of fetch_code_files and the check of its result
AfterFetch(files, lg) ==
    IF files = {}
    THEN Return("no_files", 0, status_label, "No C++ files found")
    ELSE Continue("analyze", 0, status_label, lg)

\* fetch_recursive from item j on: the flag check, then get_file
FetchFrom(j, files, lg) ==
    IF j > Len(RepoTree) \/ ~automation_running
    THEN AfterFetch(files, lg)
    ELSE Continue("get_file", 0, status_label, lg)

SetSources(w, files, n) ==
    /\ source_files' = [source_files EXCEPT ![w] = files]
    /\ original_source_files' =
         IF n.pc = "analyze" THEN files ELSE original_source_files

\* list_files returns: the tree, nothing (non-200), or the request raises
ListFilesDone(w) ==
    /\ pc[w] = "list_files"
    /\ \E r \in {"items", "empty", "raise"} :
         LET n == CASE r = "raise" -> Raise("transport", 0, status_label, log)
                    [] r = "empty" -> AfterFetch({}, log)
                    [] r = "items" -> FetchFrom(1, {}, log)
         IN  /\ Respond(w, r # "items", n)
             /\ idx' = [idx EXCEPT ![w] = IF n.pc = "get_file" THEN 1 ELSE 0]
             /\ SetSources(w, {}, n)
    /\ UNCHANGED <<repo, build_files, current_files, elapsed, fixes,
                   files_updated, conclusion, timed_out>>

\* get_file returns content, None, or the request raises
GetFileDone(w) ==
    /\ pc[w] = "get_file"
    /\ \E r \in {"content", "none", "raise"} :
         LET files == IF r = "content"
                      THEN source_files[w] \cup {RepoTree[idx[w]]}
                      ELSE source_files[w]
             n == IF r = "raise"
                  THEN Raise("transport", 0, status_label, log)
                  ELSE FetchFrom(idx[w] + 1, files, log)
         IN  /\ Respond(w, r # "content", n)
             /\ idx' = [idx EXCEPT ![w] =
                          IF n.pc = "get_file" THEN @ + 1 ELSE 0]
             /\ SetSources(w, files, n)
    /\ UNCHANGED <<repo, build_files, current_files, elapsed, fixes,
                   files_updated, conclusion, timed_out>>

\* analyze_code_requirements returns an analysis (the advisor's or the
\* fallback's), or a JSON value that is not an object, on which .get raises
AnalyzeDone(w) ==
    /\ pc[w] = "analyze"
    /\ \E r \in {"advisor", "fallback", "malformed"} :
         Respond(w, r # "advisor", IF r = "malformed"
                   THEN Raise("malformed", 0, status_label, log)
                   ELSE Continue("generate", 0, status_label, log))
    /\ UNCHANGED <<original_source_files, repo, locals, timed_out>>

\* the publish loop from target j on; after it, monitor_and_fix_with_claude
PublishFrom(k, lg) ==
    IF k = 0 THEN LoopTop(0, status_label, lg)
    ELSE Continue("put", 0, status_label, lg)

\* generate_build_files returns a dict (the fields with content), or a
\* JSON value that is not an object
GenerateDone(w) ==
    /\ pc[w] = "generate"
    /\ \E r \in {"dict", "malformed"}, present \in SUBSET GenFields :
         LET k == NextTarget(PublishTargets, present, 0)
             n == IF r = "malformed"
                  THEN Raise("malformed", 0, status_label, log)
                  ELSE PublishFrom(k, log)
         IN  /\ r = "malformed" => present = {}
             /\ Respond(w, present # GenFields, n)
             /\ idx' = [idx EXCEPT ![w] = IF n.pc = "put" THEN k ELSE 0]
             /\ build_files' = [build_files EXCEPT ![w] =
                                  IF n.pc = "put" THEN present ELSE {}]
    /\ UNCHANGED <<original_source_files, repo, source_files, current_files,
                   elapsed, fixes, files_updated, conclusion,
                   timed_out>>

\* create_or_update_file of the initial publish returns True, False or raises
PutDone(w) ==
    /\ pc[w] = "put"
    /\ \E r \in {"ok", "failed", "raise"} :
         LET t == PublishTargets[idx[w]]
             k == NextTarget(PublishTargets, build_files[w], idx[w])
             lg == IF r = "failed" THEN "Failed to create" ELSE log
             n == IF r = "raise"
                  THEN Raise("transport", 0, status_label, log)
                  ELSE PublishFrom(k, lg)
         IN  /\ Respond(w, r # "ok", n)
             /\ idx' = [idx EXCEPT ![w] = IF n.pc = "put" THEN k ELSE 0]
             /\ build_files' = [build_files EXCEPT ![w] =
                                  IF n.pc = "put" THEN @ ELSE {}]
             /\ current_files' =
                  IF r = "ok"
                  THEN [current_files EXCEPT ![w][t.key] = Generated]
                  ELSE current_files
             /\ repo' = IF r = "ok" THEN [repo EXCEPT ![t.path] = Generated]
                        ELSE repo
    /\ UNCHANGED <<original_source_files, source_files, elapsed, fixes,
                   files_updated, conclusion, timed_out>>

\* ------------------------------------------ monitor_and_fix_with_claude
Local(w, el, fx, fu) ==
    /\ elapsed' = [elapsed EXCEPT ![w] = el]
    /\ fixes' = [fixes EXCEPT ![w] = fx]
    /\ files_updated' = [files_updated EXCEPT ![w] = fu]

\* time.sleep(15) ends: get_workflow_runs is called
Sleep15Done(w) ==
    /\ pc[w] = "sleep15"
    /\ Proceed(w, Continue("get_runs", attempt[w], status_label, log))
    /\ UNCHANGED <<original_source_files, repo, locals, timed_out>>

\* get_workflow_runs returns runs, no run (or non-200), or raises
GetRunsDone(w) ==
    /\ pc[w] = "get_runs"
    /\ \E r \in {"runs", "empty", "raise"} :
         Respond(w, r # "runs", CASE r = "raise" ->
                         Raise("transport", attempt[w], status_label, log)
                     [] r = "empty" ->
                         Continue("sleep10_noruns", attempt[w], status_label,
                                  "No workflow runs found")
                     [] r = "runs" ->
                         PollTop(0, attempt[w], status_label, log))
    /\ conclusion' = [conclusion EXCEPT ![w] = "unset"]
    /\ timed_out' = [timed_out EXCEPT ![w] = FALSE]
    /\ Local(w, 0, fixes[w], files_updated[w])
    /\ UNCHANGED <<original_source_files, repo, source_files, idx,
                   build_files, current_files>>

\* time.sleep(10) after an empty run list ends: continue
Sleep10NoRunsDone(w) ==
    /\ pc[w] = "sleep10_noruns"
    /\ Proceed(w, LoopTop(attempt[w], status_label, log))
    /\ UNCHANGED <<original_source_files, repo, locals, timed_out>>

\* get_run_status in the polling loop returns completed, another lifecycle
\* state (or {} on non-200), or raises
PollStatusDone(w) ==
    /\ pc[w] = "poll_status"
    /\ \E r \in {"completed", "in_progress", "raise"} :
         /\ Local(w, IF r = "in_progress" THEN elapsed[w] ELSE 0, fixes[w],
                  files_updated[w])
         /\ Respond(w, r = "raise", CASE r = "raise" ->
                         Raise("transport", attempt[w], status_label, log)
                     [] r = "completed" ->
                         IF ~automation_running
                         THEN LoopExit("stopped", attempt[w], status_label, log)
                         ELSE Continue("eval_status", attempt[w],
                                       status_label, log)
                     [] r = "in_progress" ->
                         Continue("sleep10_poll", attempt[w],
                                  "Build running...", log))
    /\ UNCHANGED <<original_source_files, repo, source_files, idx,
                   build_files, current_files, conclusion, timed_out>>

\* time.sleep(10) of the polling loop ends: next iteration
Sleep10PollDone(w) ==
    /\ pc[w] = "sleep10_poll"
    /\ LET el == elapsed[w] + 1
           n == PollTop(el, attempt[w], status_label, log)
       IN  /\ Proceed(w, n)
           /\ Local(w, IF n.pc = "poll_status" THEN el ELSE 0, fixes[w],
                    files_updated[w])
           /\ timed_out' = [timed_out EXCEPT ![w] =
                              automation_running /\ el > TimeoutPolls]
    /\ UNCHANGED <<original_source_files, repo, source_files, idx,
                   build_files, current_files, conclusion>>

Conclusions == {"success", "failure", "cancelled", "timed_out", "null"}

\* a dispatch that remediates every outcome other than success
EvaluateUnknownAsFailure(c, a, st, lg) ==
    CASE c = "success" ->
           LoopExit("success", a, "Build successful!",
                    "Build succeeded!")
      [] OTHER ->
           Continue("get_logs", a, st, "Build failed")

\* dispatch on status.get('conclusion') after the polling loop
Evaluate(c, a, st, lg) ==
    CASE c = "success" ->
           LoopExit("success", a, "Build successful!",
                    "Build succeeded!")
      [] c \in {"failure", "cancelled"} ->
           Continue("get_logs", a, st, "Build failed")
      [] OTHER ->
           LoopTop(a, st, "Unknown build status")

\* get_run_status after the polling loop returns a conclusion (null while
\* the run is not completed, and on non-200), or raises
EvalStatusDone(w) ==
    /\ pc[w] = "eval_status"
    /\ \E r \in {"status", "raise"}, c \in Conclusions :
         /\ r = "raise" => c = "null"
         /\ Respond(w, r = "raise", IF r = "raise"
                      THEN Raise("transport", attempt[w], status_label, log)
                      ELSE Evaluate(c, attempt[w], status_label, log))
         /\ conclusion' = [conclusion EXCEPT ![w] =
                             IF r = "raise" THEN "unset" ELSE c]
    /\ UNCHANGED <<original_source_files, repo, source_files, idx,
                   build_files, current_files, elapsed, fixes, files_updated,
                   timed_out>>

\* get_run_logs returns text, "" (also on non-200), or raises
GetLogsDone(w) ==
    /\ pc[w] = "get_logs"
    /\ \E r \in {"text", "empty", "raise"} :
         /\ Respond(w, r # "text", CASE r = "raise" ->
                         Raise("transport", attempt[w], status_label, log)
                     [] r = "empty" ->
                         LoopTop(attempt[w], status_label,
                                 "Could not retrieve error logs")
                     [] r = "text" ->
                         Continue("fix", attempt[w], status_label, log))
         /\ conclusion' = [conclusion EXCEPT ![w] =
                             IF r = "text" THEN "unset" ELSE @]
         /\ timed_out' = [timed_out EXCEPT ![w] =
                            IF r = "text" THEN FALSE ELSE @]
    /\ UNCHANGED <<original_source_files, repo, source_files, idx,
                   build_files, current_files, elapsed, fixes, files_updated>>

\* a round that breaks on no update only once the counter is at the maximum
AfterWritesLateExit(fx, fu, a, st, lg) ==
    LET lg1 == IF fx.code_changes /\ a = max_fix_attempts - 1
               THEN "Claude suggests code changes:" ELSE lg
        lg2 == IF ~fu THEN "No fixes could be applied" ELSE lg1
    IN  IF ~fu /\ a >= max_fix_attempts
        THEN LoopExit("no_fix", a, st, lg2)
        ELSE Continue("sleep5", a, st, lg2)

\* the end of a remediation round: code_changes, files_updated, sleep(5)
AfterWrites(fx, fu, a, st, lg) ==
    LET lg1 == IF fx.code_changes /\ a = max_fix_attempts - 1
               THEN "Claude suggests code changes:" ELSE lg
        lg2 == IF ~fu THEN "No fixes could be applied" ELSE lg1
    IN  IF ~fu /\ a >= max_fix_attempts - 1
        THEN LoopExit("no_fix", a, st, lg2)
        ELSE Continue("sleep5", a, st, lg2)

\* the writes of a remediation round from target k on
ApplyFrom(k, fx, fu, a, st, lg) ==
    IF k = 0 THEN AfterWrites(fx, fu, a, st, lg)
    ELSE Continue("fix_put", a, st, lg)

\* a confidence gate that ends the loop on every low-confidence result
AfterFixAlwaysBreaks(fx, a, st, lg) ==
    LET low == fx.confidence < ConfidenceThreshold
        lg1 == IF low THEN "Claude has low confidence in fixes"
               ELSE lg
    IN  IF low
        THEN LoopExit("low_confidence", a, st, lg1)
        ELSE ApplyFrom(NextTarget(FixTargets, fx.present, 0), fx, FALSE, a,
                       st, lg1)

\* the confidence gate, then the first write
AfterFix(fx, a, st, lg) ==
    LET low == fx.confidence < ConfidenceThreshold
        lg1 == IF low THEN "Claude has low confidence in fixes"
               ELSE lg
    IN  IF low /\ a >= max_fix_attempts - 1
        THEN LoopExit("low_confidence", a, st, lg1)
        ELSE ApplyFrom(NextTarget(FixTargets, fx.present, 0), fx, FALSE, a,
                       st, lg1)

\* fix_build_errors returns the advisor's result, the zero-confidence result
\* (on any exception), or a JSON value that is not an object
FixDone(w) ==
    /\ pc[w] = "fix"
    /\ \E r \in {"advisor", "fallback", "malformed"}, fx \in FixResults :
         LET n == IF r = "malformed"
                  THEN Raise("malformed", attempt[w], status_label, log)
                  ELSE AfterFix(fx, attempt[w], status_label, log)
             k == NextTarget(FixTargets, fx.present, 0)
         IN  /\ r # "advisor" => fx = FallbackFix
             /\ Respond(w, r # "advisor", n)
             /\ idx' = [idx EXCEPT ![w] = IF n.pc = "fix_put" THEN k ELSE 0]
             /\ Local(w, elapsed[w],
                      IF n.pc = "fix_put" THEN Rest(fx, k)
                      ELSE IF r = "malformed" THEN NoFixes ELSE Spent(fx),
                      FALSE)
    /\ UNCHANGED <<original_source_files, repo, source_files, build_files,
                   current_files, conclusion, timed_out>>

\* create_or_update_file of a remediation round returns True, False or raises
FixPutDone(w) ==
    /\ pc[w] = "fix_put"
    /\ \E r \in {"ok", "failed", "raise"} :
         LET t == FixTargets[idx[w]]
             a == attempt[w]
             fu == files_updated[w] \/ r = "ok"
             k == NextTarget(FixTargets, fixes[w].present, idx[w])
             n == IF r = "raise"
                  THEN Raise("transport", a, status_label, log)
                  ELSE ApplyFrom(k, fixes[w], fu, a, status_label, log)
         IN  /\ Respond(w, r # "ok", n)
             /\ idx' = [idx EXCEPT ![w] = IF n.pc = "fix_put" THEN k ELSE 0]
             /\ Local(w, elapsed[w],
                      IF n.pc = "fix_put" THEN Rest(fixes[w], k) ELSE NoFixes,
                      fu)
             /\ current_files' =
                  IF r = "ok"
                  THEN [current_files EXCEPT ![w][t.key] = FixContent(a)]
                  ELSE current_files
             /\ repo' = IF r = "ok"
                        THEN [repo EXCEPT ![t.path] = FixContent(a)]
                        ELSE repo
    /\ UNCHANGED <<original_source_files, source_files, build_files,
                   conclusion, timed_out>>

\* time.sleep(5) ends: back to the head of the outer loop
Sleep5Done(w) ==
    /\ pc[w] = "sleep5"
    /\ Proceed(w, LoopTop(attempt[w], status_label, log))
    /\ Local(w, elapsed[w], NoFixes, files_updated[w])
    /\ UNCHANGED <<original_source_files, repo, source_files, idx,
                   build_files, current_files, conclusion, timed_out>>

\* ------------------------------------------- ClaudeCoordinator's helpers
\* Texts are sequences of characters; a run of characters that no pattern
\* splits is written as one element.
EndsWith(s, suffix) ==
    /\ Len(s) >= Len(suffix)
    /\ SubSeq(s, Len(s) - Len(suffix) + 1, Len(s)) = suffix

\* pattern in s
Contains(s, pattern) ==
    \E i \in 1..(Len(s) - Len(pattern) + 1) :
        SubSeq(s, i, i + Len(pattern) - 1) = pattern

Least(S) == CHOOSE x \in S : \A y \in S : x <= y
Greatest(S) == CHOOSE x \in S : \A y \in S : x >= y

\* a suffix test that accepts .cpp only
SourceSuffixesCppOnly == {<<".", "c", "p", "p">>}

\* filename.endswith(('.cpp', '.cc'))
SourceSuffixes == {<<".", "c", "p", "p">>, <<".", "c", "c">>}

\* the four substring tests, in the order of the code
DependencyPatterns ==
    << [pattern |-> <<"#include <", "boost">>,   dependency |-> "boost"],
       [pattern |-> <<"#include <", "openssl">>, dependency |-> "openssl"],
       [pattern |-> <<"#include <", "curl">>,    dependency |-> "curl"],
       [pattern |-> <<"nlohmann/json">>,      dependency |-> "nlohmann-json"] >>

\* the loop over files.items(): dependencies is a set (list(dependencies)
\* has no defined order), source_files a list in iteration order
RECURSIVE ScanFiles(_, _, _, _)
ScanFiles(fs, j, dependencies, srcs) ==
    IF j > Len(fs)
    THEN [dependencies |-> dependencies, cpp_standard |-> "17",
          source_files |-> srcs, special_requirements |-> ""]
    ELSE LET filename == fs[j].name
             content == fs[j].content
             srcs1 == IF \E suffix \in SourceSuffixes :
                             EndsWith(filename, suffix)
                      THEN Append(srcs, filename) ELSE srcs
             found == {DependencyPatterns[d].dependency :
                         d \in {e \in 1..Len(DependencyPatterns) :
                                  Contains(content,
                                           DependencyPatterns[e].pattern)}}
         IN  ScanFiles(fs, j + 1, dependencies \cup found, srcs1)

fallback_analysis(fs) == ScanFiles(fs, 1, {}, <<>>)

\* file names and lines of the files handed to the analysis
SampleNames == {<<"m", "a", "i", "n", ".", "c", "p", "p">>,
                <<"n", "e", "t", ".", "c", "c">>,
                <<"u", "t", "i", "l", ".", "h">>}
SampleLines == {<<"#include <", "boost", "/asio.hpp>">>,
                <<"#include <", "openssl", "/ssl.h>">>,
                <<"#include <", "curl", "/curl.h>">>,
                <<"#include <", "nlohmann/json", ".hpp>">>,
                <<"#include \"", "boost", "/any.hpp\"">>,
                <<"// uses ", "nlohmann/json">>}

\* the key orders of the dicts: every sequence of distinct sample names
NameOrders ==
    {ns \in UNION {[1..k -> SampleNames] : k \in 0..Cardinality(SampleNames)} :
       \A i, j \in 1..Len(ns) : ns[i] = ns[j] => i = j}

\* dicts whose files have at most k lines in total, as the sequence of
\* their items
RECURSIVE DictsOf(_)
DictsOf(k) ==
    IF k = 0
    THEN {[j \in 1..Len(ns) |-> [name |-> ns[j], content |-> <<>>]] :
            ns \in NameOrders}
    ELSE LET shorter == DictsOf(k - 1)
         IN  shorter \cup UNION {
               {[d EXCEPT ![j].content = @ \o l] :
                  j \in 1..Len(d), l \in SampleLines} : d \in shorter}

\* _fallback_analysis(files) is called (the except clause of
\* analyze_code_requirements)
FallbackAnalysisCall ==
    /\ analysis = {}
    /\ analysis' = {fallback_analysis(given_files)}
    /\ UNCHANGED <<gui, config, original_source_files, repo, locals, flow,
                   timed_out, stop_pending, run_evaluated, given_files,
                   payload, text, json_str>>

\* file names the diagnostic lines (path:line:col:) of an error log carry
DiagnosticNames == {"main.cpp", "util.cpp", "net.cpp", "io.cpp"}
\* error_files = re.findall(...): the names of the diagnostic lines, in order
ErrorLogs == UNION {[1..k -> DiagnosticNames] : k \in 0..MaxDiagnostics}

\* the source_files argument of fix_build_errors: {} for None, otherwise
\* the set holding the key set of the dict.  The fix loop calls
\* fix_build_errors(error_log, current_files, attempt): the default, None
PassedSourceFiles == {}

\* the files whose snippets fix_build_errors puts into source_context
source_context(a, error_files, sf) ==
    IF a >= SnippetAttempt /\ sf # {} /\ sf # {{}}
    THEN LET first == SubSeq(error_files, 1,
                             IF Len(error_files) < SnippetCap
                             THEN Len(error_files) ELSE SnippetCap)
         IN  {f \in SeqRange(first) : \A keys \in sf : f \in keys}
    ELSE {}

\* the snippets in the request of the advisor call in flight, for a log
\* with these diagnostics
FixRequestSnippets(w, error_files) ==
    source_context(attempt[w], error_files, PassedSourceFiles)

Whitespace == {"\n"}
\* the three backticks that open or close a fenced block
Fence == "<fence>"

\* the lazy group between two fences, with whitespace matched outside it:
\* s without the whitespace at its ends
Strip(s) ==
    LET solid == {i \in 1..Len(s) : s[i] \notin Whitespace}
    IN  IF solid = {} THEN <<>>
        ELSE SubSeq(s, Least(solid), Greatest(solid))

\* positions of a fence (three backticks) after position i
Closing(t, i) == {k \in (i + 1)..Len(t) : t[k] = Fence}

\* pattern1, a fence labeled json up to the next fence: group 1, if any
Pattern1(t) ==
    LET starts == {i \in 1..(Len(t) - 1) :
                     t[i] = Fence /\ t[i + 1] = "json"
                     /\ Closing(t, i + 1) # {}}
    IN  IF starts = {} THEN {}
        ELSE LET i == Least(starts)
             IN  {Strip(SubSeq(t, i + 2, Least(Closing(t, i + 1)) - 1))}

\* pattern2, a fence up to the next fence: group 1, if any
Pattern2(t) ==
    LET starts == {i \in 1..Len(t) : t[i] = Fence /\ Closing(t, i) # {}}
    IN  IF starts = {} THEN {}
        ELSE LET i == Least(starts)
             IN  {Strip(SubSeq(t, i + 1, Least(Closing(t, i)) - 1))}

\* pattern3, the first opening brace up to the last closing brace, if any
Pattern3(t) ==
    LET opens == {i \in 1..Len(t) :
                    t[i] = "{" /\ \E k \in (i + 1)..Len(t) : t[k] = "}"}
    IN  IF opens = {} THEN {}
        ELSE {SubSeq(t, Least(opens),
                     Greatest({k \in 1..Len(t) : t[k] = "}"}))}

extract_json(t) ==
    IF Pattern1(t) # {} THEN CHOOSE g \in Pattern1(t) : TRUE
    ELSE IF Pattern2(t) # {} THEN CHOOSE g \in Pattern2(t) : TRUE
    ELSE IF Pattern3(t) # {} THEN CHOOSE g \in Pattern3(t) : TRUE
    ELSE t

\* characters between the braces of an object: a run of member text, a
\* newline, three backticks inside a string value
BodyChars == {"a", "\n", Fence}
Payloads ==
    {<<"{">> \o b \o <<"}">> :
       b \in UNION {[1..k -> BodyChars] : k \in 0..MaxBody}}

\* json.loads(s): the object, {} when s is not a JSON document; whitespace
\* around the document is skipped
json_loads(s) ==
    IF Strip(s) \in Payloads THEN {Strip(s)} ELSE {}

\* the response forms: labeled fenced block, unlabeled fenced block, the
\* raw object; the fences on the line of the payload or on their own lines
Responses(p) ==
    {<<Fence, "json">> \o sep \o p \o sep \o <<Fence>> :
       sep \in {<<>>, <<"\n">>}}
    \cup {<<Fence>> \o sep \o p \o sep \o <<Fence>> :
            sep \in {<<>>, <<"\n">>}}
    \cup {p}

\* _extract_json(response text) is called
ExtractJsonCall ==
    /\ json_str = {}
    /\ json_str' = {extract_json(text)}
    /\ UNCHANGED <<gui, config, original_source_files, repo, locals, flow,
                   timed_out, stop_pending, run_evaluated, given_files,
                   analysis, payload, text>>

\* ------------------------------------------------------- specifications
WorkerStep(w) ==
    \/ Begin(w)
    \/ ListFilesDone(w)
    \/ GetFileDone(w)
    \/ AnalyzeDone(w)
    \/ GenerateDone(w)
    \/ PutDone(w)
    \/ Sleep15Done(w)
    \/ GetRunsDone(w)
    \/ Sleep10NoRunsDone(w)
    \/ PollStatusDone(w)
    \/ Sleep10PollDone(w)
    \/ EvalStatusDone(w)
    \/ GetLogsDone(w)
    \/ FixDone(w)
    \/ FixPutDone(w)
    \/ Sleep5Done(w)

Next ==
    \/ StartRejected
    \/ Start
    \/ Stop
    \/ \E w \in Workers : WorkerStep(w)

Forms == [api_key : BOOLEAN, token : BOOLEAN, repo_url : BOOLEAN,
          project_name : BOOLEAN]

\* no helper is called on its own
NoHelperCall ==
    /\ given_files = <<>>
    /\ analysis = {}
    /\ payload = <<>>
    /\ text = <<>>
    /\ json_str = {}

\* one run, for every configured maximum; the project name is filled in
Init ==
    /\ InitCommon
    /\ NoHelperCall
    /\ form \in {f \in Forms : f.project_name}
    /\ max_fix_attempts \in 0..MaxAttemptsCfg
    /\ starts_left = 1
    /\ faults_left = -1
Spec == Init /\ [][Next]_vars

\* a started thread keeps running: every blocking call returns or raises,
\* every sleep ends
SpecLive == Init /\ [][Next]_vars /\ \A w \in Workers : WF_vars(WorkerStep(w))

\* several start commands, with the smallest maximum that runs the loop and
\* a bounded number of failed responses
InitMulti ==
    /\ InitCommon
    /\ NoHelperCall
    /\ form \in {f \in Forms : f.project_name}
    /\ max_fix_attempts = 1
    /\ starts_left = MaxStarts
    /\ faults_left = MaxFaults
SpecMulti == InitMulti /\ [][Next]_vars

\* one run with every combination of filled-in and empty inputs (the
\* project name entry is editable and may be cleared)
InitForm ==
    /\ InitCommon
    /\ NoHelperCall
    /\ form \in Forms
    /\ max_fix_attempts = 1
    /\ starts_left = 1
    /\ faults_left = -1
SpecForm == InitForm /\ [][Next]_vars

\* no run: the GUI as constructed, all inputs filled in
NoRun ==
    /\ InitCommon
    /\ form = [api_key |-> TRUE, token |-> TRUE, repo_url |-> TRUE,
               project_name |-> TRUE]
    /\ max_fix_attempts = 1
    /\ starts_left = 0
    /\ faults_left = 0

\* the fallback analysis on every dict of sample files
InitFallback ==
    /\ NoRun
    /\ given_files \in DictsOf(MaxLines)
    /\ analysis = {}
    /\ payload = <<>>
    /\ text = <<>>
    /\ json_str = {}
NextFallback == FallbackAnalysisCall
SpecFallback == InitFallback /\ [][NextFallback]_vars

\* the extraction on every response form of every payload
InitExtract ==
    /\ NoRun
    /\ given_files = <<>>
    /\ analysis = {}
    /\ payload \in Payloads
    /\ text \in Responses(payload)
    /\ json_str = {}
NextExtract == ExtractJsonCall
SpecExtract == InitExtract /\ [][NextExtract]_vars

\* ------------------------------------------------------------- claims
Ended(w) == pc[w] = "done"
InFixLoop(w) == pc[w] \in FixLoopPcs

\* C1: the fix loop enters its body at most max_attempts times and always
\* ends; when neither a stop nor an exception ended it, it ended in Success
\* or with the attempt budget used up (the counter at the maximum, or the
\* early exit of a round at max_attempts - 1 or later).
C1_FixLoopTerminates ==
    /\ [](\A w \in Workers : iters[w] <= max_fix_attempts)
    /\ \A w \in Workers : InFixLoop(w) ~> Ended(w)
    /\ [](\A w \in Workers :
            Ended(w) /\ outcome[w] \in {"exhausted", "low_confidence", "no_fix"}
              => attempt[w] >= max_fix_attempts - 1)

\* the loop ran through every attempt of the largest maximum and ended
C1_Witness ==
    \E w \in Workers :
        /\ Ended(w)
        /\ outcome[w] = "exhausted"
        /\ max_fix_attempts = MaxAttemptsCfg
        /\ iters[w] = max_fix_attempts

\* C2: a run whose evaluated outcome is success ends with the status
\* 'Build successful!' and without the 'Max attempts reached' report.
C2_ExhaustedOnlyWithoutSuccess ==
    \A w \in Workers :
        outcome[w] = "success"
          => /\ status_label = "Build successful!"
             /\ log # "Max attempts reached"

\* C3: when the polling loop ended by the timeout and the run is still not
\* completed, the attempt is evaluated as a failure: the log is fetched and
\* remediation follows in that attempt.
C3_TimeoutIsFailure ==
    \A w \in Workers :
        timed_out[w] /\ conclusion[w] = "null" => pc[w] = "get_logs"

\* the build file an entry of the live map stands for
FileOf(key) == IF key = "workflow.yml" THEN ".github/workflows/build.yml"
               ELSE key
Entries(w, path) ==
    {k \in Keys : FileOf(k) = path /\ current_files[w][k] # None}

\* C4: for each build file the live map holds at most one entry, and it
\* equals the content last written successfully to the file's path.
C4_LiveMapIsLatest ==
    \A w \in Workers : \A path \in SeqRange(BuildPaths) :
        /\ Cardinality(Entries(w, path)) <= 1
        /\ \A k \in Entries(w, path) : current_files[w][k] = repo[path]

\* C5: a write of a remediation round (1 <= attempt < max_attempts) changes
\* the entry of the file written, and only if the write succeeded; all
\* other entries and the key set of the live map stay as they were
\* (stated for a map that holds the entries of all three build files).
C5_Step ==
    \A w \in Workers :
        (/\ pc[w] = "fix_put" /\ attempt[w] < max_fix_attempts
         /\ \A p \in SeqRange(BuildPaths) : Entries(w, p) # {})
          => LET path == RequestPath(w)
             IN  /\ \A k \in Keys \ {path} :
                        current_files'[w][k] = current_files[w][k]
                 /\ {k \in Keys : current_files'[w][k] # None}
                      = {k \in Keys : current_files[w][k] # None}
                 /\ repo'[path] # repo[path]
                      => current_files'[w][path] = repo'[path]
                 /\ repo'[path] = repo[path]
                      => current_files'[w][path] = current_files[w][path]
C5_FixRoundFrame == [][C5_Step]_vars

\* C6: in an attempt with attempt < max_attempts - 1 the fix loop sends
\* writes to the three build-file paths only, changes no source path of
\* the repository and leaves the in-memory source file set as it is.
C6_Step ==
    \A w \in Workers :
        InFixLoop(w) /\ attempt[w] < max_fix_attempts - 1
          => /\ original_source_files' = original_source_files
             /\ \A p \in Paths \ SeqRange(BuildPaths) : repo'[p] = repo[p]
             /\ pc'[w] = "fix_put"
                  => RequestPath(w)' \in SeqRange(BuildPaths)
C6_NoCodeEditApplied == [][C6_Step]_vars

\* a round below the last-resort tier whose fix result proposes code edits
\* has written a build file
C6_Witness ==
    \E w \in Workers :
        /\ pc[w] = "fix_put"
        /\ attempt[w] < max_fix_attempts - 1
        /\ fixes[w].code_changes
        /\ files_updated[w]

\* C7: after stop is set (and no new run started) a worker in the fix loop
\* issues no further request beyond the one in flight.
C7_NoCallAfterStop ==
    \A w \in Workers :
        ~(/\ stop_pending[w]
          /\ calls_after_stop[w] > 0
          /\ pc[w] \in FixLoopPcs \cap ExternalCalls)

\* C8: at most one worker thread is executing at any time, so at most one
\* request is in flight.
C8_SingleWorker ==
    /\ Cardinality({w \in Workers : pc[w] \in Live}) <= 1
    /\ Cardinality({w \in Workers : pc[w] \in ExternalCalls}) <= 1

\* C9: no transport error of a repository or advisor call ends the run with
\* the 'Failed' status.
C9_TransportErrorsAreSoft ==
    \A w \in Workers :
        ~(outcome[w] = "exception" /\ exc[w] = "transport"
          /\ status_label = "Failed")

TerminalStatus == {"Failed", "Build failed - manual intervention needed",
                   "Stopped"}

\* C10: a run that ended without a successful build has logged a warning
\* or error line and shows a terminal status label.
C10_FailureIsReported ==
    \A w \in Workers :
        Ended(w) /\ outcome[w] # "success"
          => /\ status_label \in TerminalStatus
             /\ log \notin {"none", "Build succeeded!"}

\* C11: a remediation round that ends with no build file updated at
\* attempt >= max_attempts - 1 ends the loop at that attempt, without a
\* success, and no further attempt starts: the worker leaves the loop with
\* the counter and the number of loop entries as they were.
C11_Step ==
    \A w \in Workers :
        (/\ pc[w] \in {"fix", "fix_put"}
         /\ pc'[w] \notin {"fix", "fix_put"}
         /\ outcome'[w] # "exception"
         /\ ~files_updated'[w]
         /\ attempt[w] >= max_fix_attempts - 1)
          => /\ pc'[w] = "done"
             /\ outcome'[w] \in {"no_fix", "low_confidence"}
             /\ attempt'[w] = attempt[w]
             /\ iters'[w] = iters[w]
C11_EarlyExitWithoutUpdate ==
    /\ [][C11_Step]_vars
    /\ [][\A w \in Workers : Ended(w) =>
              pc'[w] = "done" /\ iters'[w] = iters[w]
              /\ attempt'[w] = attempt[w]]_vars

\* with max_attempts = 3 the round of attempt 2 updated nothing and the
\* loop ended there, after two entries
C11_Witness ==
    \E w \in Workers :
        /\ Ended(w)
        /\ outcome[w] = "no_fix"
        /\ max_fix_attempts = 3
        /\ attempt[w] = 2
        /\ iters[w] = 2

\* C12: when get_workflow_runs reports no run, the loop waits and retries
\* run discovery with the attempt counter at the value it had before the
\* failed discovery.
C12_Step ==
    \A w \in Workers :
        pc[w] = "sleep10_noruns" /\ pc'[w] # pc[w]
          => attempt'[w] = attempt[w]
C12_NoRunKeepsAttempt == [][C12_Step]_vars

AllInputs ==
    form.api_key /\ form.token /\ form.repo_url /\ form.project_name

\* C13: a worker is started (and with it requests are made and the running
\* flag is set) only when the advisor key, the repository token, the
\* repository URL and the project name are all non-empty.
C13_StartNeedsAllInputs ==
    (automation_running \/ \E w \in Workers : pc[w] # "idle") => AllInputs

\* C14: the step in which a call of the orchestration sequence raises ends
\* the run: the worker is done, the status is 'Failed', the running flag is
\* false and the repository is as the earlier writes left it; afterwards
\* the run takes no step, writes nothing and the status stays 'Failed'.
C14_RaiseStep ==
    \A w \in Workers :
        outcome[w] # "exception" /\ outcome'[w] = "exception"
          => /\ pc'[w] = "done"
             /\ status_label' = "Failed"
             /\ ~automation_running'
             /\ repo' = repo
C14_ExceptionAborts ==
    /\ [][C14_RaiseStep]_vars
    /\ [](\A w \in Workers :
            outcome[w] = "exception"
              => Ended(w) /\ status_label = "Failed" /\ ~automation_running)
    /\ [][\A w \in Workers : outcome[w] = "exception"
              => repo' = repo /\ pc'[w] = "done"
                 /\ calls_after_stop' = calls_after_stop]_vars

\* a write of a remediation round raised after build files were published
C14_Witness ==
    \E w \in Workers :
        /\ Ended(w)
        /\ outcome[w] = "exception"
        /\ attempt[w] >= 1
        /\ \E p \in SeqRange(BuildPaths) : repo[p] # None
        /\ status_label = "Failed"

\* C15: the attempt counter is 0 until the fix loop starts, stays within
\* 0..max_attempts, and every change of it is an increase by exactly 1.
C15_Step ==
    \A w \in Workers :
        attempt'[w] # attempt[w] => attempt'[w] = attempt[w] + 1
C15_AttemptCounter ==
    /\ [](\A w \in Workers :
            /\ attempt[w] \in 0..max_fix_attempts
            /\ pc[w] \notin FixLoopPcs \cup {"done"} => attempt[w] = 0)
    /\ [][C15_Step]_vars

\* the counter reached the largest maximum inside the loop
C15_Witness ==
    \E w \in Workers :
        /\ InFixLoop(w)
        /\ max_fix_attempts = MaxAttemptsCfg
        /\ attempt[w] = max_fix_attempts

C16_Patterns ==
    {<<"boost", <<"#include <", "boost">>>>,
     <<"openssl", <<"#include <", "openssl">>>>,
     <<"curl", <<"#include <", "curl">>>>,
     <<"nlohmann-json", <<"nlohmann/json">>>>}
C16_IsSource(name) ==
    \/ EndsWith(name, <<".", "c", "p", "p">>)
    \/ EndsWith(name, <<".", "c", "c">>)
C16_Names == [j \in 1..Len(given_files) |-> given_files[j].name]

\* C16: the fallback analysis returns as dependencies exactly the
\* libraries whose pattern occurs in at least one file, cpp_standard '17',
\* and as source_files the names ending in .cpp or .cc, in input order.
C16_FallbackAnalysis ==
    \A r \in analysis :
        /\ r.dependencies =
             {dp[1] : dp \in {q \in C16_Patterns :
                 \E j \in 1..Len(given_files) :
                     Contains(given_files[j].content, q[2])}}
        /\ r.cpp_standard = "17"
        /\ r.source_files = SelectSeq(C16_Names, C16_IsSource)

\* one file main.cpp that includes <curl/curl.h>: [curl], 17, [main.cpp]
C16_Witness ==
    /\ given_files =
         <<[name |-> <<"m", "a", "i", "n", ".", "c", "p", "p">>,
            content |-> <<"#include <", "curl", "/curl.h>">>]>>
    /\ \E r \in analysis :
         /\ r.dependencies = {"curl"}
         /\ r.cpp_standard = "17"
         /\ r.source_files = <<<<"m", "a", "i", "n", ".", "c", "p", "p">>>>

\* C17: for every JSON object payload, wrapped in a labeled or unlabeled
\* fenced block or given as the raw object, the extracted text parses to
\* the payload.
C17_ExtractRoundTrip ==
    \A s \in json_str : json_loads(s) = {payload}

\* C18: when the evaluated run concluded failure or cancelled the log is
\* fetched, and once it is fetched the advisor is asked for a fix in that
\* same attempt, whatever the log contains.
C18_Step ==
    \A w \in Workers :
        /\ (pc[w] = "eval_status"
            /\ conclusion'[w] \in {"failure", "cancelled"})
             => pc'[w] = "get_logs"
        /\ (pc[w] = "get_logs" /\ pc'[w] # "get_logs"
            /\ outcome'[w] # "exception")
             => (pc'[w] = "fix" /\ attempt'[w] = attempt[w])
C18_FailureIsRemediated == [][C18_Step]_vars

\* C19: a remediation round whose fix result proposes code edits writes
\* them to a source file of the repository exactly when its attempt is
\* max_attempts - 1.
C19_Step ==
    \A w \in Workers :
        (/\ pc[w] = "fix_put" /\ fixes[w].code_changes
         /\ pc'[w] \in {"sleep5", "done"}
         /\ outcome'[w] # "exception")
          => ((\E p \in SeqRange(RepoTree) : repo'[p] # None)
                <=> attempt[w] = max_fix_attempts - 1)
C19_CodeEditsAtLastResort == [][C19_Step]_vars

\* C20: a fix result with confidence below 0.3 ends the loop if and only
\* if attempt >= max_attempts - 1; below that the round goes on to its
\* writes (or, with nothing to write, to the wait before the next attempt)
\* and the next attempt starts unless the run is stopped.
C20_GateStep ==
    \A w \in Workers :
        (pc[w] = "fix" /\ pc'[w] # "fix" /\ outcome'[w] # "exception")
          => LET low == fixes'[w].confidence < ConfidenceThreshold
                 last == attempt[w] >= max_fix_attempts - 1
             IN  /\ (low /\ last)
                      => (/\ pc'[w] = "done"
                          /\ outcome'[w] = "low_confidence"
                          /\ repo' = repo)
                 /\ (low /\ ~last)
                      => (/\ pc'[w] \in {"fix_put", "sleep5"}
                          /\ pc'[w] = "fix_put"
                               => log' = "Claude has low confidence in fixes")
                 /\ outcome'[w] = "low_confidence" => (low /\ last)
C20_NextStep ==
    \A w \in Workers :
        (/\ pc[w] = "sleep5" /\ pc'[w] # "sleep5"
         /\ attempt[w] < max_fix_attempts - 1 /\ automation_running)
          => (pc'[w] = "sleep15" /\ attempt'[w] = attempt[w] + 1)
C20_LowConfidenceGate ==
    /\ [][C20_GateStep]_vars
    /\ [][C20_NextStep]_vars

\* a low-confidence result below the last-resort tier is being written
C20_Witness ==
    \E w \in Workers :
        /\ pc[w] = "fix_put"
        /\ fixes[w].confidence < ConfidenceThreshold
        /\ attempt[w] < max_fix_attempts - 1
        /\ log = "Claude has low confidence in fixes"

\* the worker takes a step out of the write in flight
WriteReturns(w) == <<pc[w], idx[w]>>' # <<pc[w], idx[w]>>

\* C21: in a remediation round, when the write of one build file ends
\* (succeeded or failed), the write of the next file with replacement
\* content is attempted, and the live map is assigned the written content
\* exactly when the write succeeded.
C21_Step ==
    \A w \in Workers :
        (pc[w] = "fix_put" /\ WriteReturns(w))
          => LET path == RequestPath(w)
                 ok == repo'[path] # repo[path]
             IN  /\ fixes[w].present # {}
                      => (/\ pc'[w] = "fix_put"
                          /\ idx'[w] = NextTarget(FixTargets,
                                                  fixes[w].present, idx[w]))
                 /\ ok => \E k \in Keys :
                              /\ FileOf(k) = path
                              /\ current_files'[w][k] = repo'[path]
                 /\ ~ok => current_files'[w] = current_files[w]
C21_WritesAreIndependent == [][C21_Step]_vars

\* C22: the request of a fix call with attempt >= 3 carries snippets of
\* the fetched source files named in the diagnostics of the log (at most 3
\* files, at least one when a fetched file is named among the first
\* three); with attempt < 3 it carries none.
C22_SnippetsFromThirdAttempt ==
    \A w \in Workers :
        pc[w] = "fix"
          => \A el \in ErrorLogs :
               LET got == FixRequestSnippets(w, el)
                   named == {el[j] : j \in 1..Len(el)} \cap source_files[w]
               IN  /\ attempt[w] < 3 => got = {}
                   /\ attempt[w] >= 3
                        => (/\ got \subseteq named
                            /\ Cardinality(got) <= 3
                            /\ (Len(el) >= 1 /\ el[1] \in source_files[w])
                                 => got # {})

\* C23: an evaluated outcome other than success, failure and cancelled
\* causes no advisor request and no write and ends the attempt: the next
\* attempt starts (counter + 1) while attempts are left and the run is not
\* stopped; otherwise the loop ends by its bound or by the stop.
C23_Step ==
    \A w \in Workers :
        (/\ pc[w] = "eval_status"
         /\ conclusion'[w] \in Conclusions \ {"success", "failure", "cancelled"})
          => /\ repo' = repo
             /\ pc'[w] \notin AdvisorCalls \cup {"get_logs", "fix_put"}
             /\ outcome'[w] \notin {"exception", "success"}
             /\ (attempt[w] < max_fix_attempts /\ automation_running)
                  => (pc'[w] = "sleep15" /\ attempt'[w] = attempt[w] + 1)
             /\ ~(attempt[w] < max_fix_attempts /\ automation_running)
                  => (pc'[w] = "done" /\ attempt'[w] = attempt[w])
C23_UnknownIsNonFatal == [][C23_Step]_vars

\* an unknown outcome of attempt 1 was followed by attempt 2
C23_Witness ==
    \E w \in Workers :
        /\ pc[w] = "sleep15"
        /\ attempt[w] = 2
        /\ log = "Unknown build status"
        /\ conclusion[w] \in {"null", "timed_out"}

\* the setup step a worker is in
Phase(p) ==
    CASE p \in {"idle", "start"} -> 0
      [] p \in {"list_files", "get_file"} -> 1
      [] p = "analyze" -> 2
      [] p = "generate" -> 3
      [] p = "put" -> 4
      [] p \in FixLoopPcs -> 5
      [] OTHER -> 6

\* C24: a run goes through fetch, analysis, generation and publish in this
\* order, the two advisor steps once each; the fix loop starts when no
\* build file is left to publish; with no source file fetched none of the
\* steps after the fetch happens.
C24_Step ==
    \A w \in Workers :
        /\ Phase(pc'[w]) >= Phase(pc[w])
        /\ (pc[w] \in {"analyze", "generate"} /\ pc'[w] # pc[w])
             => Phase(pc'[w]) > Phase(pc[w])
        /\ (Phase(pc[w]) < 5 /\ pc'[w] \in FixLoopPcs)
             => (/\ pc[w] \in {"generate", "put"}
                 /\ pc[w] = "put"
                      => NextTarget(PublishTargets, build_files[w],
                                    idx[w]) = 0)
        /\ (Phase(pc[w]) < 2 /\ Phase(pc'[w]) >= 2 /\ pc'[w] # "done")
             => (pc'[w] = "analyze" /\ source_files'[w] # {})
C24_SetupInOrder ==
    /\ [][C24_Step]_vars
    /\ [](\A w \in Workers :
            Phase(pc[w]) \in 2..5 => source_files[w] # {})
    /\ [](\A w \in Workers :
            outcome[w] = "no_files"
              => /\ \A p \in Paths : repo[p] = None
                 /\ attempt[w] = 0 /\ iters[w] = 0)

\* the fix loop runs after all three build files were published
C24_Witness ==
    \E w \in Workers :
        /\ pc[w] = "sleep15"
        /\ attempt[w] = 1
        /\ \A p \in SeqRange(BuildPaths) : repo[p] = Generated

\* C25: an attempt never reads the conclusion of a run that an earlier
\* attempt of the same loop has evaluated (no successful write since).
C25_Step ==
    \A w \in Workers :
        (/\ pc[w] = "eval_status"
         /\ pc'[w] # pc[w]
         /\ exc'[w] = "none")
          => ~run_evaluated[w]
C25_RunEvaluatedOnce == [][C25_Step]_vars

\* C26: a loop that ended by its bound or by a break (not by a stop, not
\* by an exception) leaves no fix of its last attempt in the repository:
\* every written fix was followed by an attempt that polled CI.
C26_FixIsObserved ==
    \A w \in Workers :
        (/\ Ended(w)
         /\ ~stop_pending[w]
         /\ outcome[w] \in {"exhausted", "success", "no_fix",
                            "low_confidence"})
          => \A p \in Paths : repo[p] # FixContent(attempt[w])

\* C27: a run that ended because stop was observed is not reported as
\* exhausted: neither the log line nor the status of the exhausted outcome.
C27_StoppedIsNotExhausted ==
    \A w \in Workers :
        (Ended(w) /\ outcome[w] = "stopped")
          => /\ log # "Max attempts reached"
             /\ status_label # "Build failed - manual intervention needed"

\* the pauses after which the next statement reads automation_running
FlagReadAfter == {"sleep10_poll", "sleep10_noruns", "sleep5"}

\* C28: a worker w still alive when a newer run v exists is the worker of
\* a stopped run (a start is accepted only after the stop).  (a) w ends at
\* its next read of the flag instead of going on, and (b) the end of w
\* leaves the flag and the buttons of the live run v alone.
C28_Step ==
    \A w, v \in Workers :
        (w < v /\ pc[w] \in Live /\ pc[v] # "idle")
          => /\ (pc[w] \in FlagReadAfter /\ pc'[w] # pc[w])
                  => pc'[w] = "done"
             /\ (pc[w] \in Live /\ pc'[w] = "done" /\ pc[v] \in Live)
                  => UNCHANGED <<automation_running, start_button,
                                 stop_button>>
C28_StoppedWorkerStaysStopped == [][C28_Step]_vars

\* C29: a worker that was stopped while it lists or fetches the source
\* files goes on to no advisor request and to no publish.
C29_Step ==
    \A w \in Workers :
        (stop_pending[w] /\ pc[w] \in {"start", "list_files", "get_file"})
          => pc'[w] \notin AdvisorCalls \cup {"put"}
C29_StopDuringSetup == [][C29_Step]_vars
====
